---- MODULE Spec2Model ----
\* Model of generate_text (src/llama3.2-1b/py/main.py): the greedy decode loop
\* with an incremental key/value cache, driven against a forward-step
\* collaborator (session.run) that is modelled as a nondeterministic
\* environment.  Tensors are abstracted to what the loop's bookkeeping depends
\* on: id sequences, the mask sequence, and per-tensor cachedLength (axis 2 of
\* each past_key_values tensor).
EXTENDS Integers, Sequences, FiniteSets, TLC

\* ---------------------------------------------------------------- bounds
MaxPrompt == 2        \* longest tokenized prompt explored
MaxLen == 4           \* largest max_length explored
VocabSize == 3        \* number of token ids
num_layers == 2       \* layers of the model (the demo model has 16)

Vocab == 0..(VocabSize - 1)
eos_token_id == VocabSize - 1
NoToken == 0 - 1

KV == {"key", "value"}
Layers == 0..(num_layers - 1)
\* the dict keys  f"past_key_values.{i}.key" / f"past_key_values.{i}.value"
CacheKeys == Layers \X KV

VARIABLES
    prompt_ids,        \* inputs["input_ids"] as returned by the tokenizer
    max_length,        \* the max_length argument
    input_ids,         \* ids fed to the next forward step
    attention_mask,    \* mask fed to the next forward step
    position_ids,      \* position ids fed to the next forward step
    generated_ids,     \* prompt + appended tokens
    past_key_values,   \* CacheKeys -> cachedLength of that tensor
    step,              \* loop variable of  for step in range(...)
    pc,                \* "loop" | "break" | "done" | "raised"
    result,            \* the ids handed to tokenizer.decode on return
    trace              \* history: one record per session.run call

vars == <<prompt_ids, max_length, input_ids, attention_mask, position_ids,
          generated_ids, past_key_values, step, pc, result, trace>>

\* ---------------------------------------------------------------- helpers
SeqsUpTo(S, n) == UNION {[1..k -> S] : k \in 0..n}

Ones(n) == [i \in 1..n |-> 1]

\* np.arange(seq_length)
Arange(n) == [i \in 1..n |-> i - 1]

seq_length == Len(prompt_ids)

\* np.argmax over one row of logits: the lowest index among the maxima
Argmax(row) ==
    CHOOSE t \in Vocab :
        /\ \A u \in Vocab : row[u] <= row[t]
        /\ \A u \in Vocab : row[u] = row[t] => t <= u

\* A logits tensor of shape [1, n, vocab] is kept as the length n of its
\* sequence axis and its last row, the only row the loop reads; two logit
\* levels give every arg-max, ties included.
LogitLevels == {0, 1}

\* logits[0, -1, :] is defined only when the sequence axis is non-empty
HasLastRow(logits) == logits.seq_len >= 1

LastRow(logits) == logits.last

\* the logits tensors a forward step fed n ids can return
LogitsOf(n) ==
    IF n = 0 THEN {[seq_len |-> 0, last |-> <<>>]}
    ELSE {[seq_len |-> n, last |-> r] : r \in [Vocab -> LogitLevels]}

\* name of the past tensor that output j (j >= 1) continues
PresentKey(j) == <<(j - 1) \div 2, IF j % 2 = 1 THEN "key" ELSE "value">>

\* the faults open to a forward step: none (0), or leaving out the new slices
\* of one output tensor.  A fault makes the caches unequal and they stay
\* unequal whatever follows, so only the first fault of a run is explored.
DropChoices(past) ==
    IF \A a, b \in CacheKeys : past[a] = past[b]
    THEN 0..(2 * num_layers) ELSE {0}

\* session.run: outputs[0] is the logits, outputs[1 + 2i] / outputs[2 + 2i]
\* the present key / value of layer i.  Each present tensor is the past one
\* with the slices of the fed ids concatenated, except for the tensor the
\* fault leaves out (drop # 0), which yields caches of unequal cachedLength.
Run(ort_inputs, logits, drop) ==
    [j \in 0..(2 * num_layers) |->
        IF j = 0 THEN logits
        ELSE ort_inputs.past[PresentKey(j)]
             + (IF j = drop THEN 0 ELSE Len(ort_inputs.input_ids))]

\* for step in range(max_length - seq_length)
LoopRange_inclusive(ml, sl) == 0..(ml - sl)

LoopRange_noPrompt(ml, sl) == 0..(ml - 1)

LoopRange_swapped(ml, sl) == 0..(sl - ml - 1)

LoopRange(ml, sl) == 0..(ml - sl - 1)

\* lines 64-66: every past tensor is replaced by the matching output
UpdatePast_keysOnly(outputs) ==
    [k \in CacheKeys |->
        IF k[2] = "key" THEN outputs[1 + k[1] * 2] ELSE past_key_values[k]]

UpdatePast_repair(outputs) ==
    [k \in CacheKeys |-> outputs[1]]

UpdatePast(outputs) ==
    [k \in CacheKeys |->
        IF k[2] = "key" THEN outputs[1 + k[1] * 2] ELSE outputs[2 + k[1] * 2]]

\* if next_token_id == tokenizer.eos_token_id: break
StopOnEos_never(next_token_id) == FALSE

StopOnEos(next_token_id) == next_token_id = eos_token_id

\* generated_ids = np.concatenate([generated_ids, [[next_token_id]]], axis=1)
AppendToken_prepend(ids, next_token_id) == <<next_token_id>> \o ids

AppendToken(ids, next_token_id) == ids \o <<next_token_id>>

\* input_ids = np.array([[next_token_id]])
NextInputIds_refeed(next_token_id) == generated_ids \o <<next_token_id>>

NextInputIds(next_token_id) == <<next_token_id>>

\* attention_mask = np.concatenate([attention_mask, np.ones((1, 1))], axis=1)
NextAttentionMask_stale(mask) == mask

NextAttentionMask(mask) == mask \o <<1>>

\* position_ids = np.array([[attention_mask.shape[1] - 1]])
NextPositionIds_offByOne(mask) == <<Len(mask)>>

NextPositionIds(mask) == <<Len(mask) - 1>>

\* ---------------------------------------------------------------- behaviour
\* State at the top of the loop, after lines 26-46.  With padding=False the
\* tokenizer's attention mask is all ones, one per prompt id.
Init ==
    /\ prompt_ids \in SeqsUpTo(Vocab, MaxPrompt)
    /\ max_length \in (0 - 1)..MaxLen
    /\ input_ids = prompt_ids
    /\ attention_mask = Ones(Len(prompt_ids))
    /\ position_ids = Arange(Len(prompt_ids))
    /\ generated_ids = prompt_ids
    /\ past_key_values = [k \in CacheKeys |-> 0]
    /\ step = 0
    /\ pc = "loop"
    /\ result = <<>>
    /\ trace = <<>>

CallRecord(ort_inputs, outputs, token) ==
    [input_ids |-> ort_inputs.input_ids,
     attention_mask |-> ort_inputs.attention_mask,
     position_ids |-> ort_inputs.position_ids,
     past |-> ort_inputs.past,
     present |-> [j \in 1..(2 * num_layers) |-> outputs[j]],
     token |-> token]

\* One iteration of the loop body, lines 48-91.
Step ==
    /\ pc = "loop"
    /\ step \in LoopRange(max_length, seq_length)
    /\ \E logits \in LogitsOf(Len(input_ids)),
          drop \in DropChoices(past_key_values) :
         LET ort_inputs == [input_ids |-> input_ids,
                            attention_mask |-> attention_mask,
                            position_ids |-> position_ids,
                            past |-> past_key_values]
             outputs == Run(ort_inputs, logits, drop)
         IN
         /\ past_key_values' = UpdatePast(outputs)
         /\ IF ~HasLastRow(outputs[0])
            THEN \* logits[0, -1, :] raises IndexError on an empty sequence axis
                 /\ pc' = "raised"
                 /\ trace' = Append(trace, CallRecord(ort_inputs, outputs, NoToken))
                 /\ UNCHANGED <<input_ids, attention_mask, position_ids,
                                generated_ids, step>>
            ELSE LET next_token_id == Argmax(LastRow(outputs[0])) IN
                 /\ trace' = Append(trace,
                                    CallRecord(ort_inputs, outputs, next_token_id))
                 /\ IF StopOnEos(next_token_id)
                    THEN /\ pc' = "break"
                         /\ UNCHANGED <<input_ids, attention_mask, position_ids,
                                        generated_ids, step>>
                    ELSE /\ generated_ids' = AppendToken(generated_ids, next_token_id)
                         /\ input_ids' = NextInputIds(next_token_id)
                         /\ attention_mask' = NextAttentionMask(attention_mask)
                         /\ position_ids' = NextPositionIds(attention_mask')
                         /\ step' = step + 1
                         /\ pc' = "loop"
    /\ UNCHANGED <<prompt_ids, max_length, result>>

\* Lines 93-95: the loop is left (range exhausted or break) and generated_ids
\* is handed to tokenizer.decode.
Return ==
    /\ \/ pc = "break"
       \/ pc = "loop" /\ step \notin LoopRange(max_length, seq_length)
    /\ pc' = "done"
    /\ result' = generated_ids
    /\ UNCHANGED <<prompt_ids, max_length, input_ids, attention_mask,
                   position_ids, generated_ids, past_key_values, step, trace>>

Next == Step \/ Return

Spec == Init /\ [][Next]_vars

\* The loop is synchronous and every step is a blocking call that returns, so
\* an enabled step is eventually taken.
FairSpec == Spec /\ WF_vars(Next)

\* ---------------------------------------------------------------- properties
Terminal == {"done", "raised"}

Min(a, b) == IF a <= b THEN a ELSE b

Take(s, n) == SubSeq(s, 1, Min(n, Len(s)))

\* the arg-max tokens of the forward steps made so far, in call order
Tokens == [i \in 1..Len(trace) |-> trace[i].token]

\* longest prefix of s that contains no eos_token_id
EosFreePrefix(s) ==
    LET hits == {i \in 1..Len(s) : s[i] = eos_token_id}
    IN IF hits = {} THEN s
       ELSE SubSeq(s, 1, (CHOOSE i \in hits : \A j \in hits : i <= j) - 1)

\* the tokens appended to the prompt so far
Appended == SubSeq(generated_ids, seq_length + 1, Len(generated_ids))

\* call j grew every cache tensor by the number of ids it was fed
Concatenated(j) ==
    \A i \in 1..(2 * num_layers) :
        trace[j].present[i]
            = trace[j].past[PresentKey(i)] + Len(trace[j].input_ids)

\* the caches returned by call j do not all have the same cachedLength
Inconsistent(j) ==
    \E a, b \in 1..(2 * num_layers) : trace[j].present[a] # trace[j].present[b]

\* C1: for a prompt of length >= 1 and max_length >= len(prompt), the returned
\* ids are the prompt followed by the longest eos-free prefix of the arg-max
\* tokens, truncated to max_length - len(prompt) tokens.
C1_Result ==
    (pc = "done" /\ seq_length >= 1 /\ max_length >= seq_length)
        => result = prompt_ids
                     \o Take(EosFreePrefix(Tokens), max_length - seq_length)

\* the end-to-end scenario scaled to the bounds: two ordinary tokens, then
\* eos, with one unit of budget left over
C1_Witness ==
    /\ pc = "done"
    /\ seq_length >= 1
    /\ Len(trace) = 3
    /\ trace[1].token # eos_token_id
    /\ trace[2].token # eos_token_id
    /\ trace[3].token = eos_token_id
    /\ max_length = seq_length + 3
    /\ Len(result) = seq_length + 2
    /\ result[1] # result[Len(result)]

\* C2: the first forward step is fed the whole prompt, every later one is fed
\* exactly one id, the token selected by the preceding step.
C2_SingleTokenDecode ==
    \A k \in 1..Len(trace) :
        /\ k = 1 => trace[k].input_ids = prompt_ids
        /\ k > 1 => /\ Len(trace[k].input_ids) = 1
                    /\ trace[k].input_ids = <<trace[k - 1].token>>

C2_Witness ==
    /\ Len(trace) = 2
    /\ seq_length = 2
    /\ Len(trace[1].input_ids) = 2
    /\ trace[2].input_ids = <<trace[1].token>>
    /\ trace[1].token # prompt_ids[2]

\* C3: once a forward step selects eos_token_id, that token is not appended,
\* no further forward step is made and the loop is left; if it is the first
\* step, the result is the prompt.
C3_EosSuppression ==
    \A k \in 1..Len(trace) :
        trace[k].token = eos_token_id
            => /\ k = Len(trace)
               /\ pc \in {"break", "done"}
               /\ generated_ids = prompt_ids \o SubSeq(Tokens, 1, k - 1)
               /\ pc = "done" => result = generated_ids
               /\ (k = 1 /\ pc = "done") => result = prompt_ids

C3_Witness ==
    /\ pc = "done"
    /\ Len(trace) = 1
    /\ trace[1].token = eos_token_id
    /\ seq_length >= 1
    /\ max_length > seq_length + 1

\* C4: after every loop step (the one that stops on eos included) the mask is
\* as long as generated_ids, and every entry the loop appended is 1.
C4_MaskLength ==
    /\ Len(attention_mask) = Len(generated_ids)
    /\ \A i \in (seq_length + 1)..Len(attention_mask) : attention_mask[i] = 1

C4_Witness ==
    /\ pc = "break"
    /\ Len(trace) = 3
    /\ Len(attention_mask) = seq_length + 2

\* C5: when len(prompt) >= max_length no forward step is made at all and the
\* prompt is returned unchanged.
C5_NoBudget ==
    seq_length >= max_length
        => /\ trace = <<>>
           /\ pc # "raised"
           /\ generated_ids = prompt_ids
           /\ pc = "done" => result = prompt_ids

C5_Witness ==
    /\ pc = "done"
    /\ seq_length >= 1
    /\ seq_length = max_length
    /\ result = prompt_ids

\* number of calls that did not lead to an appended token: the last call, when
\* it selected eos_token_id or failed on an empty sequence axis
UnappendedCalls ==
    IF trace # <<>> /\ trace[Len(trace)].token \in {eos_token_id, NoToken}
    THEN 1 ELSE 0

\* C6 as stated: in every run the number of forward steps equals the number
\* of tokens appended to generated_ids.
C6_Original ==
    pc = "done" => Len(trace) = Len(result) - seq_length

\* C6 (amended): every call but a last one that stops the run (on
\* eos_token_id, or on an empty prompt) appends exactly one token; a call is
\* made only while len(generated_ids) < max_length and no eos was selected;
\* the loop is left only on eos or on an exhausted budget; the result is no
\* longer than max_length when max_length >= len(prompt); the run terminates.
C6_Safety ==
    /\ Len(trace) = Len(Appended) + UnappendedCalls
    /\ \A k \in 1..Len(trace) :
          /\ seq_length + k - 1 < max_length
          /\ \A j \in 1..(k - 1) : trace[j].token # eos_token_id
    /\ pc \in {"break", "done"}
          => \/ (trace # <<>> /\ trace[Len(trace)].token = eos_token_id)
             \/ Len(generated_ids) = max_length
             \/ (max_length <= seq_length /\ trace = <<>>)
    /\ (pc = "done" /\ max_length >= seq_length) => Len(result) <= max_length

C6_CallsPerToken == [](C6_Safety) /\ <>(pc \in Terminal)

C6_Witness ==
    /\ pc = "done"
    /\ Len(trace) = 3
    /\ Len(result) = seq_length + 2
    /\ trace[3].token = eos_token_id

\* the ids fed to the calls before call k, counted
FedBefore(k) == IF k = 1 THEN 0 ELSE seq_length + (k - 2)

\* C7 as stated: with a concatenating collaborator every cache tensor grows
\* by exactly 1 per forward step, prefill included.
C7_Original ==
    (\A j \in 1..Len(trace) : Concatenated(j))
        => \A c \in CacheKeys : past_key_values[c] = Len(trace)

\* C7 (amended): with a concatenating collaborator cachedLength starts at 0
\* and grows by the number of ids fed to the step (len(prompt) at prefill, 1
\* at every decode step), identically for every layer's key and value, both
\* in the caches the loop holds and in the caches it feeds to each step.
C7_CacheGrowth ==
    (\A j \in 1..Len(trace) : Concatenated(j))
        => /\ \A c \in CacheKeys :
                 past_key_values[c] = FedBefore(Len(trace) + 1)
           /\ \A k \in 1..Len(trace) : \A c \in CacheKeys :
                 /\ trace[k].past[c] = FedBefore(k)
                 /\ trace[k].present[1] - trace[k].past[c]
                        = (IF k = 1 THEN seq_length ELSE 1)

C7_Witness ==
    /\ Len(trace) = 2
    /\ seq_length = 2
    /\ \A j \in 1..Len(trace) : Concatenated(j)
    /\ \A c \in CacheKeys : past_key_values[c] = 3

\* C8 as stated: with max_length <= 0 or an empty prompt the run ends in an
\* error raised before any forward step, never in a returned sequence.
C8_Original ==
    ((max_length <= 0 \/ prompt_ids = <<>>) /\ pc \in Terminal)
        => (pc = "raised" /\ trace = <<>>)

\* C8 (amended): the arguments are not validated.  With max_length <= 0 the
\* prompt is returned unchanged without any forward step and without error;
\* with an empty prompt and max_length > 0 the empty input is fed to one
\* forward step and the run fails only then; nothing fails before a call.
C8_NoValidation ==
    /\ max_length <= 0
          => /\ trace = <<>>
             /\ pc # "raised"
             /\ pc = "done" => result = prompt_ids
    /\ (prompt_ids = <<>> /\ max_length > 0 /\ pc \in Terminal)
          => /\ pc = "raised"
             /\ Len(trace) = 1
             /\ trace[1].input_ids = <<>>
    /\ pc = "raised" => (prompt_ids = <<>> /\ Len(trace) = 1)

C8_Witness ==
    /\ pc = "done"
    /\ max_length <= 0
    /\ seq_length >= 1
    /\ trace = <<>>
    /\ result = prompt_ids

\* C9 as stated: a forward step that returns caches of unequal cachedLength
\* is the last one, and no sequence is returned after it.
C9_Original ==
    \A k \in 1..Len(trace) :
        Inconsistent(k) => (k = Len(trace) /\ pc # "done")

\* C9 (amended): caches of unequal cachedLength are not detected.  They are
\* stored as returned and fed unchanged to the next forward step, no error is
\* raised for them, and the run returns its token sequence as usual.
C9_NoCacheCheck ==
    /\ \A k \in 1..Len(trace) : \A c \in CacheKeys :
          LET stored == IF c[2] = "key" THEN trace[k].present[1 + c[1] * 2]
                                         ELSE trace[k].present[2 + c[1] * 2]
          IN IF k < Len(trace) THEN trace[k + 1].past[c] = stored
                               ELSE past_key_values[c] = stored
    /\ (seq_length >= 1 /\ \E k \in 1..Len(trace) : Inconsistent(k))
          => /\ pc # "raised"
             /\ pc = "done"
                   => result = prompt_ids
                        \o Take(EosFreePrefix(Tokens), max_length - seq_length)

C9_Witness ==
    /\ pc = "done"
    /\ Len(trace) = 3
    /\ Inconsistent(1)
    /\ \E a, b \in CacheKeys : trace[3].past[a] # trace[3].past[b]
    /\ Len(result) > seq_length

\* C10: at every forward step made after steps that all concatenated, the
\* position ids are cachedLength .. cachedLength + len(input_ids) - 1
\* (0 .. len(prompt) - 1 at prefill, [len(generated_ids) - 1] afterwards) and
\* the mask has cachedLength + len(input_ids) entries.
C10_Aligned ==
    \A k \in 1..Len(trace) :
        (\A j \in 1..(k - 1) : Concatenated(j))
            => \A c \in CacheKeys :
                  LET cached == trace[k].past[c]
                      n == Len(trace[k].input_ids)
                  IN /\ trace[k].position_ids = [i \in 1..n |-> cached + i - 1]
                     /\ Len(trace[k].attention_mask) = cached + n
                     /\ k = 1 => trace[k].position_ids = Arange(seq_length)
                     /\ k > 1 => trace[k].position_ids = <<seq_length + k - 2>>

C10_Witness ==
    /\ Len(trace) = 3
    /\ seq_length = 1
    /\ \A j \in 1..Len(trace) : Concatenated(j)
    /\ trace[3].position_ids = <<2>>
====
